---- MODULE Spec2Model ----
(***************************************************************************)
(* Model of scripts/setup-agents.py (the Generator) and                    *)
(* scripts/run_agent.py (the Runner).                                      *)
(*                                                                         *)
(* A text is a sequence of chunks (TLA+ strings).  The concatenation of    *)
(* the chunks is the Python string.  The characters the code inspects      *)
(* (braces of str.format, JSON punctuation and quotes, newlines, the       *)
(* ".json" suffix) are always chunks of their own.                         *)
(***************************************************************************)
EXTENDS Integers, Sequences, FiniteSets, TLC

\* ------------------------------------------------------------------ bounds
MaxGenRuns == 2
MaxRacingRuns == 1
MaxTaskWords == 2

\* ------------------------------------------------------- generic helpers
RECURSIVE Flatten(_)
Flatten(seqs) ==
    IF seqs = <<>> THEN <<>> ELSE Head(seqs) \o Flatten(Tail(seqs))

\* sep.join(parts), parts a sequence of texts
RECURSIVE Join(_, _)
Join(sep, parts) ==
    IF parts = <<>> THEN <<>>
    ELSE IF Len(parts) = 1 THEN parts[1]
    ELSE parts[1] \o sep \o Join(sep, Tail(parts))

Range(s) == {s[i] : i \in DOMAIN s}

\* ------------------------------------------- setup-agents.py: agents table
AgentOrder ==
    << "mcp-implementation", "database-architect", "tool-implementer",
       "search-optimizer", "test-engineer" >>

TableNames == Range(AgentOrder)

agents ==
    [n \in TableNames |->
       CASE n = "mcp-implementation" ->
              [description |-> "Implement core MCP server functionality and protocol compliance",
               expertise |-> << "MCP protocol implementation",
                                "JSON-RPC 2.0 message handling",
                                "stdio transport setup",
                                "Tool registration systems",
                                "Protocol initialization and capability negotiation" >>,
               guidelines |-> << "Follow MCP SDK documentation strictly",
                                 "Ensure all tools are stateless",
                                 "Implement proper error handling for protocol messages",
                                 "Use TypeScript with strict type checking",
                                 "Reference HLD.md for architectural decisions" >>]
         [] n = "database-architect" ->
              [description |-> "Design and implement SQLite database schema and operations",
               expertise |-> << "SQLite database design",
                                "Schema migrations",
                                "Query optimization",
                                "Transaction management",
                                "Database performance tuning" >>,
               guidelines |-> << "Use exact schema from HLD.md",
                                 "Enable WAL mode for concurrency",
                                 "Implement atomic transactions for all write operations",
                                 "Create indexes for common query patterns",
                                 "Use better-sqlite3 synchronous API" >>]
         [] n = "tool-implementer" ->
              [description |-> "Implement individual MCP tools according to specifications",
               expertise |-> << "MCP tool implementation",
                                "Zod schema validation",
                                "Error handling patterns",
                                "Response formatting",
                                "Stateless design patterns" >>,
               guidelines |-> << "Each tool must complete in single request/response",
                                 "Use Zod for all input validation",
                                 "Follow standard response format from HLD.md",
                                 "Implement comprehensive error handling",
                                 "Never expose internal errors to users" >>]
         [] n = "search-optimizer" ->
              [description |-> "Implement and optimize search functionality with SQLite FTS5",
               expertise |-> << "SQLite FTS5 configuration",
                                "Full-text search optimization",
                                "Query parsing and sanitization",
                                "Search result ranking",
                                "Snippet generation" >>,
               guidelines |-> << "Configure FTS5 for conversation search",
                                 "Implement proper query sanitization",
                                 "Add BM25 ranking for relevance",
                                 "Generate contextual snippets",
                                 "Handle special characters in queries" >>]
         [] n = "test-engineer" ->
              [description |-> "Create comprehensive test suite for all components",
               expertise |-> << "Jest testing framework",
                                "Unit test design",
                                "Integration testing",
                                "Mock strategies",
                                "Test coverage analysis" >>,
               guidelines |-> << "Aim for >80% code coverage",
                                 "Test both success and error paths",
                                 "Create integration tests for MCP protocol",
                                 "Use in-memory SQLite for test isolation",
                                 "Test concurrent operations" >>]]

\* setup-agents.py: prompt_template (the literal text between placeholders
\* is kept as whole chunks)
prompt_template ==
    << "You are a specialized agent for the MCP Persistence System project.",
       "\n", "\n", "Agent Role: ", "{", "description", "}", "\n", "\n",
       "Your Areas of Expertise:", "\n", "{", "expertise", "}", "\n", "\n",
       "Guidelines to Follow:", "\n", "{", "guidelines", "}", "\n", "\n",
       "Current Working Directory: /home/john/mnemosyne", "\n",
       "Project Type: TypeScript/Node.js MCP Server", "\n",
       "Key Reference: HLD.md contains the complete system design", "\n", "\n",
       "Please help with the following task:", "\n" >>

\* setup-agents.py: runner_script (the source text of run_agent.py, opaque)
runner_script == << "#!/usr/bin/env python3 ... run_agent.py source ..." >>

\* ------------------------------------------------------ json.dump(indent=2)
\* The strings of the model need no escaping (ASCII, no quote, no backslash).
Indent(level) == [i \in 1..(2 * level) |-> " "]

DumpStr(s) == << "\"", s, "\"" >>

DumpListTrailingComma(l, level) ==
    << "[" >>
    \o Flatten([i \in DOMAIN l |-> << "\n" >> \o Indent(level + 1) \o DumpStr(l[i]) \o << "," >>])
    \o << "\n" >> \o Indent(level) \o << "]" >>

\* a list of strings at nesting level `level`
DumpList(l, level) ==
    IF l = <<>> THEN << "[", "]" >>
    ELSE << "[" >>
         \o Join(<< "," >>,
                 [i \in DOMAIN l |-> << "\n" >> \o Indent(level + 1) \o DumpStr(l[i])])
         \o << "\n" >> \o Indent(level) \o << "]" >>

\* one member of the top-level object: key, ": ", value
DumpMember(key, val) ==
    << "\n" >> \o Indent(1) \o DumpStr(key) \o << ":", " " >>
    \o (IF val.t = "str" THEN DumpStr(val.s) ELSE DumpList(val.l, 1))

\* members: sequence of [key, val] in dict order
DumpObj(members) ==
    IF members = <<>> THEN << "{", "}" >>
    ELSE << "{" >>
         \o Join(<< "," >>,
                 [i \in DOMAIN members |-> DumpMember(members[i].key, members[i].val)])
         \o << "\n", "}" >>

StrVal(s) == [t |-> "str", s |-> s, l |-> <<>>]
ListVal(l) == [t |-> "list", s |-> "", l |-> l]

\* the dict of one agent as json.dump sees it (insertion order of the literal)
ConfigMembers(c) ==
    << [key |-> "description", val |-> StrVal(c.description)],
       [key |-> "expertise", val |-> ListVal(c.expertise)],
       [key |-> "guidelines", val |-> ListVal(c.guidelines)] >>

JsonDump(c) == DumpObj(ConfigMembers(c))

\* ---------------------------------------------------------------- json.load
\* Inputs of the model: a document is an object whose member values are
\* strings or arrays of strings, an array of strings, or a string; anything
\* else is not well-formed JSON here (empty or cut-off text included).
IsWs(c) == c \in {" ", "\n"}

At(t, i) == IF i \in DOMAIN t THEN t[i] ELSE "<eof>"

RECURSIVE SkipWs(_, _)
SkipWs(t, i) ==
    IF i \in DOMAIN t /\ IsWs(t[i]) THEN SkipWs(t, i + 1) ELSE i

\* a string literal starting at i: quote, optional body chunk, quote
ParseString(t, i) ==
    IF At(t, i) # "\"" THEN [ok |-> FALSE, s |-> "", next |-> i]
    ELSE IF At(t, i + 1) = "\"" THEN [ok |-> TRUE, s |-> "", next |-> i + 2]
    ELSE IF i + 1 \in DOMAIN t /\ At(t, i + 2) = "\""
         THEN [ok |-> TRUE, s |-> t[i + 1], next |-> i + 3]
    ELSE [ok |-> FALSE, s |-> "", next |-> i]

\* the items of an array after "[" (or after a comma), i at the next item
RECURSIVE ParseItems(_, _, _)
ParseItems(t, i, acc) ==
    LET str == ParseString(t, i)
        k == SkipWs(t, str.next)
    IN  IF ~str.ok THEN [ok |-> FALSE, l |-> <<>>, next |-> i]
        ELSE IF At(t, k) = "," THEN ParseItems(t, SkipWs(t, k + 1), Append(acc, str.s))
        ELSE IF At(t, k) = "]" THEN [ok |-> TRUE, l |-> Append(acc, str.s), next |-> k + 1]
        ELSE [ok |-> FALSE, l |-> <<>>, next |-> i]

ParseList(t, i) ==
    LET j == SkipWs(t, i + 1)
    IN  IF At(t, i) # "[" THEN [ok |-> FALSE, l |-> <<>>, next |-> i]
        ELSE IF At(t, j) = "]" THEN [ok |-> TRUE, l |-> <<>>, next |-> j + 1]
        ELSE ParseItems(t, j, <<>>)

ParseValue(t, i) ==
    IF At(t, i) = "\""
    THEN LET str == ParseString(t, i)
         IN  [ok |-> str.ok, val |-> StrVal(str.s), next |-> str.next]
    ELSE IF At(t, i) = "["
    THEN LET lst == ParseList(t, i)
         IN  [ok |-> lst.ok, val |-> ListVal(lst.l), next |-> lst.next]
    ELSE [ok |-> FALSE, val |-> StrVal(""), next |-> i]

\* the members of an object after "{" (or after a comma), i at the next key
RECURSIVE ParseMembers(_, _, _)
ParseMembers(t, i, acc) ==
    LET key == ParseString(t, i)
        c == SkipWs(t, key.next)
        v == ParseValue(t, SkipWs(t, c + 1))
        k == SkipWs(t, v.next)
        m == Append(acc, [key |-> key.s, val |-> v.val])
    IN  IF ~key.ok \/ At(t, c) # ":" \/ ~v.ok
        THEN [ok |-> FALSE, members |-> <<>>, next |-> i]
        ELSE IF At(t, k) = "," THEN ParseMembers(t, SkipWs(t, k + 1), m)
        ELSE IF At(t, k) = "}" THEN [ok |-> TRUE, members |-> m, next |-> k + 1]
        ELSE [ok |-> FALSE, members |-> <<>>, next |-> i]

ParseObj(t, i) ==
    LET j == SkipWs(t, i + 1)
    IN  IF At(t, j) = "}" THEN [ok |-> TRUE, members |-> <<>>, next |-> j + 1]
        ELSE ParseMembers(t, j, <<>>)

JsonFail == [ok |-> FALSE, kind |-> "none", members |-> <<>>]

\* json.load: the whole text must be one document (trailing whitespace only)
JsonLoad(t) ==
    LET i == SkipWs(t, 1)
        AtEnd(n) == SkipWs(t, n) = Len(t) + 1
    IN  IF At(t, i) = "{"
        THEN LET o == ParseObj(t, i)
             IN  IF o.ok /\ AtEnd(o.next)
                 THEN [ok |-> TRUE, kind |-> "obj", members |-> o.members]
                 ELSE JsonFail
        ELSE IF At(t, i) = "["
        THEN LET l == ParseList(t, i)
             IN  IF l.ok /\ AtEnd(l.next)
                 THEN [ok |-> TRUE, kind |-> "list", members |-> <<>>]
                 ELSE JsonFail
        ELSE IF At(t, i) = "\""
        THEN LET str == ParseString(t, i)
             IN  IF str.ok /\ AtEnd(str.next)
                 THEN [ok |-> TRUE, kind |-> "str", members |-> <<>>]
                 ELSE JsonFail
        ELSE JsonFail

\* dict lookup: the last member with that key wins
HasKey(members, key) == \E i \in DOMAIN members : members[i].key = key

GetKey(members, key) ==
    LET idx == {i \in DOMAIN members : members[i].key = key}
        last == CHOOSE i \in idx : \A j \in idx : j <= i
    IN  members[last].val

\* --------------------------------------------------------------- str.format
\* Replacement fields of the model are plain names: no conversion, no format
\* specification, no attribute or index access.
FmtErr(e) == [ok |-> FALSE, err |-> e, text |-> <<>>]

\* index of the "}" closing the field opened before i; 0 if the text ends or
\* another "{" comes first
RECURSIVE CloseIdx(_, _)
CloseIdx(t, i) ==
    IF i \notin DOMAIN t \/ t[i] = "{" THEN 0
    ELSE IF t[i] = "}" THEN i
    ELSE CloseIdx(t, i + 1)

RECURSIVE FormatFrom(_, _, _)
FormatFrom(t, i, kw) ==
    LET Lit(c, n) ==
            LET rest == FormatFrom(t, n, kw)
            IN  IF rest.ok THEN [rest EXCEPT !.text = << c >> \o @] ELSE rest
    IN  IF i \notin DOMAIN t THEN [ok |-> TRUE, err |-> "", text |-> <<>>]
        ELSE IF t[i] = "{"
        THEN IF At(t, i + 1) = "{" THEN Lit("{", i + 2)
             ELSE LET c == CloseIdx(t, i + 1)
                      name == SubSeq(t, i + 1, c - 1)
                  IN  IF c = 0 THEN FmtErr("ValueError")
                      ELSE IF name = <<>> THEN FmtErr("IndexError")
                      ELSE IF Len(name) = 1 /\ name[1] \in DOMAIN kw
                      THEN LET rest == FormatFrom(t, c + 1, kw)
                           IN  IF rest.ok
                               THEN [rest EXCEPT !.text = kw[name[1]] \o @]
                               ELSE rest
                      ELSE FmtErr("KeyError")
        ELSE IF t[i] = "}"
        THEN IF At(t, i + 1) = "}" THEN Lit("}", i + 2) ELSE FmtErr("ValueError")
        ELSE Lit(t[i], i + 1)

Format(t, kw) == FormatFrom(t, 1, kw)

\* ------------------------------------------------- run_agent.py: format_prompt
BulletsNoSpace(items) ==
    Join(<< "\n" >>, [i \in DOMAIN items |-> << "-", items[i] >>])

\* '\n'.join(f"- {item}" for item in items)
Bullets(items) ==
    Join(<< "\n" >>, [i \in DOMAIN items |-> << "- ", items[i] >>])

LookupDefault(cfg, key) ==
    IF cfg.kind # "obj" THEN [ok |-> FALSE, err |-> "TypeError", val |-> StrVal("")]
    ELSE IF ~HasKey(cfg.members, key)
    THEN [ok |-> TRUE, err |-> "", val |-> IF key = "description" THEN StrVal("") ELSE ListVal(<<>>)]
    ELSE [ok |-> TRUE, err |-> "", val |-> GetKey(cfg.members, key)]

\* agent_config[key] of the loaded document
Lookup(cfg, key) ==
    IF cfg.kind # "obj" THEN [ok |-> FALSE, err |-> "TypeError", val |-> StrVal("")]
    ELSE IF ~HasKey(cfg.members, key)
    THEN [ok |-> FALSE, err |-> "KeyError", val |-> StrVal("")]
    ELSE [ok |-> TRUE, err |-> "", val |-> GetKey(cfg.members, key)]

FormatPromptSep(cfg, template, task) ==
    LET e == Lookup(cfg, "expertise")
        g == Lookup(cfg, "guidelines")
        d == Lookup(cfg, "description")
        f == Format(template,
                    [description |-> << d.val.s >>,
                     expertise |-> Bullets(e.val.l),
                     guidelines |-> Bullets(g.val.l)])
    IN  IF ~e.ok THEN FmtErr(e.err)
        ELSE IF ~g.ok THEN FmtErr(g.err)
        ELSE IF ~d.ok THEN FmtErr(d.err)
        ELSE IF ~f.ok THEN f
        ELSE [f EXCEPT !.text = @ \o << "\n" >> \o task]

\* the text returned by format_prompt once the template has been read, or
\* the exception it raises
FormatPrompt(cfg, template, task) ==
    LET e == Lookup(cfg, "expertise")
        g == Lookup(cfg, "guidelines")
        d == Lookup(cfg, "description")
        f == Format(template,
                    [description |-> << d.val.s >>,
                     expertise |-> Bullets(e.val.l),
                     guidelines |-> Bullets(g.val.l)])
    IN  IF ~e.ok THEN FmtErr(e.err)
        ELSE IF ~g.ok THEN FmtErr(g.err)
        ELSE IF ~d.ok THEN FmtErr(d.err)
        ELSE IF e.val.t # "list" \/ g.val.t # "list" \/ d.val.t # "str"
        THEN FmtErr("NotModelled")
        ELSE IF ~f.ok THEN f
        ELSE [f EXCEPT !.text = @ \o task]

\* -------------------------------------------------------------- file system
\* A file name is a text; the agents directory holds the files of DirNames.
\* run_agent.py lives next to the agents directory, with a permission mode.
ExtraNames == {"legacy"}

JsonFile(agent_name) == << agent_name, ".json" >>

TemplateName == << "prompt_template", ".txt" >>

DirNames == {JsonFile(n) : n \in TableNames \cup ExtraNames} \cup {TemplateName}

Absent == [ex |-> FALSE, data |-> <<>>]

File(d) == [ex |-> TRUE, data |-> d]

NoRunner == [ex |-> FALSE, data |-> <<>>, mode |-> "none"]

EmptyFS == [dir |-> FALSE, files |-> [n \in DirNames |-> Absent], runner |-> NoRunner]

\* os.path.exists(os.path.join(agents_dir, name))
Exists(f, name) == f.dir /\ name \in DOMAIN f.files /\ f.files[name].ex

\* os.listdir(agents_dir), as a set: the order is unspecified
Listdir(f) == {n \in DOMAIN f.files : f.files[n].ex}

OpenRTruncating(f, name) == [f EXCEPT !.files[name] = File(<<>>)]

\* open(path, 'r') leaves the file system as it is
OpenR(f, name) == f

TruncateKeeps(data) == data

\* open(path, 'w'): the file is created or cut to length 0
Truncate(data) == <<>>

OpenW(f, name) == [f EXCEPT !.files[name] = File(Truncate(@.data))]

\* the buffered text reaches the file in one write when the file is closed
WriteClose(f, name, data) == [f EXCEPT !.files[name].data = @ \o data]

OpenWRunner(f) ==
    [f EXCEPT !.runner = [ex |-> TRUE, data |-> Truncate(@.data),
                          mode |-> IF @.ex THEN @.mode ELSE "umask"]]

WriteCloseRunner(f, data) == [f EXCEPT !.runner.data = @ \o data]

\* os.chmod(runner_file, 0o755)
Chmod(f) == [f EXCEPT !.runner.mode = "0755"]

\* os.makedirs(agents_dir, exist_ok=True)
Makedirs(f) == [f EXCEPT !.dir = TRUE]

\* ------------------------------------------------- contents found at start
Scenario == [description |-> "D", expertise |-> << "E1", "E2" >>, guidelines |-> << "G1" >>]

NoItems == [description |-> "D", expertise |-> <<>>, guidelines |-> <<>>]

Without(c, key) ==
    DumpObj(SelectSeq(ConfigMembers(c), LAMBDA m : m.key # key))

CutOff(t) == SubSeq(t, 1, Len(t) - 1)

GoodConfigTexts == {JsonDump(Scenario), JsonDump(NoItems)}

BadConfigTexts ==
    { Without(Scenario, "description"), Without(Scenario, "expertise"),
      Without(Scenario, "guidelines"),
      DumpList(<< "D" >>, 0),
      <<>>,
      CutOff(JsonDump(Scenario)) }

ConfigTexts == GoodConfigTexts \cup BadConfigTexts

ScenarioTemplate ==
    << "{", "description", "}", "\n", "{", "expertise", "}", "\n",
       "{", "guidelines", "}", "\n" >>

GoodTemplates ==
    { prompt_template, ScenarioTemplate, <<>>,
      << "{", "{", "x", "}", "}", " ", "{", "description", "}" >> }

BadTemplates == { << "{", "name", "}" >>, << "Task: ", "{" >>, << "}" >> , << "{", "}" >>}

TemplateTexts == GoodTemplates \cup BadTemplates

\* directory states the programs may find
WithFiles(tab, leg, tpl) ==
    [dir |-> TRUE,
     files |-> [n \in DirNames |->
                  IF n = TemplateName THEN tpl
                  ELSE IF n[1] \in TableNames
                  THEN (IF tab = "none" THEN Absent ELSE File(JsonDump(Scenario)))
                  ELSE leg],
     runner |-> IF tab = "none" THEN NoRunner
                ELSE [ex |-> TRUE, data |-> << "old script" >>, mode |-> "umask"]]

RichFS ==
    {EmptyFS} \cup
    { WithFiles(tab, leg, tpl) :
        tab \in {"none", "stale"},
        leg \in {Absent} \cup {File(d) : d \in ConfigTexts},
        tpl \in {Absent} \cup {File(d) : d \in TemplateTexts} }

SmallFS ==
    { EmptyFS,
      WithFiles("none", File(JsonDump(Scenario)), File(ScenarioTemplate)) }

\* ------------------------------------------------------------------- state
VARIABLES fs, gen, run, last, snap, pristine

vars == << fs, gen, run, last, snap, pristine >>

\* --------------------------------------------- setup-agents.py: the script
ScriptTemplateFirst == << "makedirs", "template", "agents", "runner", "chmod" >>

\* the order of the script's phases
Script == << "makedirs", "agents", "template", "runner", "chmod" >>

Path(name) == << "agents/" >> \o name

FinalLines ==
    << << "\n", "Agent setup complete!" >>,
       << "\n", "To use an agent:" >>,
       << "  python scripts/run_agent.py <agent-name> <task>" >>,
       << "\n", "Example:" >>,
       << "  python scripts/run_agent.py mcp-implementation \"Set up the base MCP server class\"" >> >>

GenIdle == [pc |-> "idle", ph |-> 0, step |-> "open", i |-> 1, runs |-> 0,
            max |-> 0, out |-> <<>>, exit |-> -1]

Phase(g) == IF g.pc = "run" THEN Script[g.ph] ELSE "none"

\* the script moves on to its next phase, or ends after the last one
Advance(g, lines) ==
    IF g.ph = Len(Script)
    THEN [g EXCEPT !.pc = "done", !.out = @ \o lines \o FinalLines, !.exit = 0,
                   !.step = "open", !.i = 1]
    ELSE [g EXCEPT !.ph = @ + 1, !.out = @ \o lines, !.step = "open", !.i = 1]

\* history: a write of the Generator is noted on the running (or finished)
\* Runner invocation and on the record of the invocation before it
Noted(newfs) ==
    /\ run' = IF newfs # fs /\ run.pc # "idle" THEN [run EXCEPT !.touched = TRUE] ELSE run
    /\ last' = IF newfs # fs THEN [last EXCEPT !.clean = FALSE] ELSE last

GenStart ==
    /\ gen.pc \in {"idle", "done", "crashed"}
    /\ gen.runs < gen.max
    /\ gen' = [GenIdle EXCEPT !.pc = "run", !.ph = 1, !.runs = gen.runs + 1,
                              !.max = gen.max]
    /\ snap' = [valid |-> gen.pc = "done", fs |-> IF gen.pc = "done" THEN fs ELSE EmptyFS]
    /\ UNCHANGED << fs, run, last, pristine >>

GenMakedirs ==
    /\ Phase(gen) = "makedirs"
    /\ fs' = Makedirs(fs)
    /\ gen' = Advance(gen, <<>>)
    /\ Noted(fs')
    /\ UNCHANGED << snap, pristine >>

\* open(agent_file, 'w') of the loop's current agent
GenOpenAgent ==
    /\ Phase(gen) = "agents" /\ gen.step = "open"
    /\ IF fs.dir
       THEN /\ fs' = OpenW(fs, JsonFile(AgentOrder[gen.i]))
            /\ gen' = [gen EXCEPT !.step = "write"]
       ELSE /\ fs' = fs
            /\ gen' = [gen EXCEPT !.pc = "crashed", !.exit = 1]
    /\ Noted(fs')
    /\ UNCHANGED << snap, pristine >>

\* json.dump, close, print; then the next agent of the table
GenWriteAgent ==
    /\ Phase(gen) = "agents" /\ gen.step = "write"
    /\ LET name == JsonFile(AgentOrder[gen.i])
           line == << "Created agent configuration: " >> \o Path(name)
       IN  /\ fs' = WriteClose(fs, name, JsonDump(agents[AgentOrder[gen.i]]))
           /\ gen' = IF gen.i < Len(AgentOrder)
                     THEN [gen EXCEPT !.i = @ + 1, !.step = "open", !.out = Append(@, line)]
                     ELSE Advance(gen, << line >>)
    /\ Noted(fs')
    /\ UNCHANGED << snap, pristine >>

GenOpenTemplate ==
    /\ Phase(gen) = "template" /\ gen.step = "open"
    /\ IF fs.dir
       THEN /\ fs' = OpenW(fs, TemplateName)
            /\ gen' = [gen EXCEPT !.step = "write"]
       ELSE /\ fs' = fs
            /\ gen' = [gen EXCEPT !.pc = "crashed", !.exit = 1]
    /\ Noted(fs')
    /\ UNCHANGED << snap, pristine >>

GenWriteTemplate ==
    /\ Phase(gen) = "template" /\ gen.step = "write"
    /\ fs' = WriteClose(fs, TemplateName, prompt_template)
    /\ gen' = Advance(gen, << << "\n", "Created prompt template: " >> \o Path(TemplateName) >>)
    /\ Noted(fs')
    /\ UNCHANGED << snap, pristine >>

GenOpenRunner ==
    /\ Phase(gen) = "runner" /\ gen.step = "open"
    /\ fs' = OpenWRunner(fs)
    /\ gen' = [gen EXCEPT !.step = "write"]
    /\ Noted(fs')
    /\ UNCHANGED << snap, pristine >>

GenWriteRunner ==
    /\ Phase(gen) = "runner" /\ gen.step = "write"
    /\ fs' = WriteCloseRunner(fs, runner_script)
    /\ gen' = Advance(gen, <<>>)
    /\ Noted(fs')
    /\ UNCHANGED << snap, pristine >>

\* os.chmod, then the remaining prints
GenChmod ==
    /\ Phase(gen) = "chmod"
    /\ IF fs.runner.ex
       THEN /\ fs' = Chmod(fs)
            /\ gen' = Advance(gen, << << "\n", "Created agent runner: ", "run_agent.py" >> >>)
       ELSE /\ fs' = fs
            /\ gen' = [gen EXCEPT !.pc = "crashed", !.exit = 1]
    /\ Noted(fs')
    /\ UNCHANGED << snap, pristine >>

\* a file-system operation of the script raises OSError: nothing is caught
GenFail ==
    /\ gen.pc = "run"
    /\ gen' = [gen EXCEPT !.pc = "crashed", !.exit = 1]
    /\ UNCHANGED << fs, run, last, snap, pristine >>

GenStep ==
    \/ GenMakedirs
    \/ GenOpenAgent
    \/ GenWriteAgent
    \/ GenOpenTemplate
    \/ GenWriteTemplate
    \/ GenOpenRunner
    \/ GenWriteRunner
    \/ GenChmod

\* ------------------------------------------------------ run_agent.py: Runner
Prog == "run_agent.py"

AgentArgs == TableNames \cup ExtraNames \cup {"ghost"}

TaskWords == << "hello", "{", "world", "}" >>

\* sys.argv of one invocation
Argvs ==
    {<< Prog >>} \cup {<< Prog, n >> : n \in AgentArgs}
    \cup {<< Prog, n >> \o SubSeq(TaskWords, 1, k) : n \in AgentArgs, k \in 1..MaxTaskWords}

BannerWidth == 80

Banner == [i \in 1..BannerWidth |-> "="]

Usage == << "Usage: python run_agent.py <agent_name> <task>" >>

TooFewArgsOffByOne(argv) == Len(argv) < 2

TooFewArgs(argv) == Len(argv) < 3

\* ' '.join(sys.argv[2:])
TaskOf(argv) == Join(<< " " >>, [i \in 1..(Len(argv) - 2) |-> << argv[i + 2] >>])

EndsWithAnything(f) == Len(f) >= 1

EndsWithJson(f) == Len(f) >= 1 /\ f[Len(f)] = ".json"

\* f[:-5]
Stem(f) == SubSeq(f, 1, Len(f) - 1)

NoCfg == JsonFail

RunIdle == [pc |-> "idle", argv |-> <<>>, agent_name |-> "", task |-> <<>>,
            found |-> FALSE, cfg |-> NoCfg,
            out |-> <<>>, listed |-> {}, exit |-> -1, err |-> "", ops |-> <<>>,
            touched |-> FALSE]

NoLast == [valid |-> FALSE, clean |-> FALSE, argv |-> <<>>, out |-> <<>>]

\* what is kept of an invocation that ended, for the invocation after it
\* when that one has the same arguments
Summary(r) ==
    IF r.pc = "done" /\ r.exit = 0
    THEN [valid |-> TRUE, clean |-> ~r.touched, argv |-> r.argv, out |-> r.out]
    ELSE NoLast

\* an uncaught exception: traceback on stderr, exit status 1
Raise(r, e) == [r EXCEPT !.pc = "done", !.exit = 1, !.err = e]

\* __main__ up to the call of load_agent
RunMain ==
    /\ run.pc \in {"idle", "done"}
    /\ \E argv \in Argvs :
         LET r == [RunIdle EXCEPT !.argv = argv]
         IN  /\ run' = IF TooFewArgs(argv)
                       THEN [r EXCEPT !.pc = "done", !.out = << Usage >>, !.exit = 1]
                       ELSE [r EXCEPT !.pc = "exists", !.agent_name = argv[2],
                                      !.task = TaskOf(argv)]
             /\ last' = IF argv = run.argv THEN Summary(run) ELSE NoLast
    /\ UNCHANGED << fs, gen, snap, pristine >>

\* load_agent: the os.path.exists test and the two prints of the error path
RunExists ==
    /\ run.pc = "exists"
    /\ LET name == JsonFile(run.agent_name)
           r == [run EXCEPT !.ops = Append(@, << "exists", name >>)]
       IN  run' = IF Exists(fs, name)
                  THEN [r EXCEPT !.pc = "load", !.found = TRUE]
                  ELSE [r EXCEPT !.pc = "listdir",
                                 !.out = << << "Error: Agent '", run.agent_name, "' not found" >>,
                                            << "Available agents:" >> >>]
    /\ UNCHANGED << fs, gen, last, snap, pristine >>

\* load_agent: the listing of the error path and sys.exit(1)
RunListdir ==
    /\ run.pc = "listdir"
    /\ LET r == [run EXCEPT !.ops = Append(@, << "listdir", << "agents" >> >>)]
       IN  run' = IF ~fs.dir THEN Raise(r, "FileNotFoundError")
                  ELSE [r EXCEPT !.pc = "done", !.exit = 1,
                                 !.listed = {<< "  - " >> \o Stem(f) :
                                               f \in {n \in Listdir(fs) : EndsWithJson(n)}}]
    /\ UNCHANGED << fs, gen, last, snap, pristine >>

\* load_agent: open and json.load
RunLoad ==
    /\ run.pc = "load"
    /\ LET name == JsonFile(run.agent_name)
           r == [run EXCEPT !.ops = Append(@, << "read", name >>)]
           doc == JsonLoad(fs.files[name].data)
       IN
       /\ run' = IF ~Exists(fs, name) THEN Raise(r, "FileNotFoundError")
                  ELSE IF ~doc.ok THEN Raise(r, "JSONDecodeError")
                  ELSE [r EXCEPT !.pc = "format", !.cfg = doc]
       /\ fs' = IF Exists(fs, name) THEN OpenR(fs, name) ELSE fs
    /\ UNCHANGED << gen, last, snap, pristine >>

\* format_prompt and the four prints of __main__
RunFormat ==
    /\ run.pc = "format"
    /\ LET r == [run EXCEPT !.ops = Append(@, << "read", TemplateName >>)]
           p == FormatPrompt(run.cfg, fs.files[TemplateName].data, run.task)
       IN
       /\ run' = IF ~Exists(fs, TemplateName) THEN Raise(r, "FileNotFoundError")
                  ELSE IF ~p.ok THEN Raise(r, p.err)
                  ELSE [r EXCEPT !.pc = "done", !.exit = 0,
                                 !.out = << << "Agent Prompt:" >>, Banner, p.text, Banner >>]
       /\ fs' = IF Exists(fs, TemplateName) THEN OpenR(fs, TemplateName) ELSE fs
    /\ UNCHANGED << gen, last, snap, pristine >>

RunStep ==
    \/ RunExists
    \/ RunListdir
    \/ RunLoad
    \/ RunFormat

\* ----------------------------------------------------------- specifications
InitFrom(FSs, genRuns) ==
    /\ fs \in FSs
    /\ gen = [GenIdle EXCEPT !.max = genRuns]
    /\ run = RunIdle
    /\ last = NoLast
    /\ snap = [valid |-> FALSE, fs |-> EmptyFS]
    /\ pristine = (fs = EmptyFS)

\* Generator and Runner as concurrent processes, file operation by file
\* operation; any file operation of the Generator may fail
Init == InitFrom(SmallFS, MaxRacingRuns)

Next ==
    \/ GenStart
    \/ GenStep
    \/ GenFail
    \/ RunMain
    \/ RunStep

Spec == Init /\ [][Next]_vars

\* one process at a time on a healthy file system, from any directory state
InitSeq == InitFrom(RichFS, MaxGenRuns)

GenAtRest == gen.pc \in {"idle", "done", "crashed"}

RunAtRest == run.pc \in {"idle", "done"}

NextSeq ==
    \/ RunAtRest /\ GenStart
    \/ RunAtRest /\ GenStep
    \/ GenAtRest /\ RunMain
    \/ GenAtRest /\ RunStep

SpecSeq == InitSeq /\ [][NextSeq]_vars

\* =================================================================== claims
\* ------------------------------------------------- reference definitions
FieldNames == {"description", "expertise", "guidelines"}

\* the braces of the template form replacement fields of the three names only
TemplateOK(t) ==
    \A i \in DOMAIN t :
        /\ t[i] = "{" => i + 2 <= Len(t) /\ t[i + 1] \in FieldNames /\ t[i + 2] = "}"
        /\ t[i] = "}" => i >= 3 /\ t[i - 2] = "{"

\* one line per entry, each "- " and the entry, a newline between two lines
RefBullets(items) ==
    Flatten([i \in DOMAIN items |->
               (IF i > 1 THEN << "\n" >> ELSE <<>>) \o << "- ", items[i] >>])

\* the template with every replacement field replaced by its value
RefRender(t, c) ==
    LET IsField(i) == i > 1 /\ i < Len(t) /\ t[i - 1] = "{" /\ t[i + 1] = "}"
        Value(name) == CASE name = "description" -> << c.description >>
                         [] name = "expertise" -> RefBullets(c.expertise)
                         [] name = "guidelines" -> RefBullets(c.guidelines)
    IN  Flatten([i \in DOMAIN t |->
                   IF t[i] \in {"{", "}"} THEN <<>>
                   ELSE IF IsField(i) THEN Value(t[i])
                   ELSE << t[i] >>])

KnownRecords == {Scenario, NoItems} \cup {agents[n] : n \in TableNames}

\* a full invocation has ended and no file was written since it began
Completed == run.pc = "done" /\ Len(run.argv) >= 3 /\ ~run.touched

ConfigName == JsonFile(run.agent_name)

ConfigPresent == Exists(fs, ConfigName)

TemplatePresent == Exists(fs, TemplateName)

Printed(prompt) == << << "Agent Prompt:" >>, Banner, prompt, Banner >>

EndsWith(t, suffix) ==
    Len(t) >= Len(suffix) /\ SubSeq(t, Len(t) - Len(suffix) + 1, Len(t)) = suffix

\* C1 as stated: whenever the configuration file of the named agent is
\* present, the Runner exits 0 and prints, between the banner lines, a prompt
\* that ends with the task
C1_AsStated ==
    (Completed /\ ConfigPresent) =>
        /\ run.exit = 0
        /\ Len(run.out) = 4
        /\ run.out[2] = Banner /\ run.out[4] = Banner
        /\ EndsWith(run.out[3], run.task)

\* C1 (amended): when the configuration file of the named agent is present
\* and holds a well-formed record with the three fields, and the template is
\* present with replacement fields of the three names only, the Runner exits
\* 0 and prints between the two banner lines exactly the rendered template
\* immediately followed by the task
C1_PresentWellFormedPrintsPrompt ==
    (/\ Completed /\ ConfigPresent /\ TemplatePresent
     /\ \E c \in KnownRecords : fs.files[ConfigName].data = JsonDump(c)
     /\ TemplateOK(fs.files[TemplateName].data))
    => LET c == CHOOSE k \in KnownRecords : fs.files[ConfigName].data = JsonDump(k)
       IN  /\ run.exit = 0
           /\ run.out = Printed(RefRender(fs.files[TemplateName].data, c) \o run.task)

C1_Witness ==
    /\ Completed /\ ConfigPresent /\ run.exit = 0
    /\ run.agent_name = "legacy"
    /\ fs.files[TemplateName].data = prompt_template
    /\ run.task = << "hello", " ", "{" >>

\* C2: for an agent name without configuration file the Runner prints the
\* error naming the agent, lists the stem of every .json entry of the
\* directory and of no other entry, exits non-zero and prints no banner
C2_NotFoundListsJsonStems ==
    (Completed /\ ~ConfigPresent) =>
        /\ run.exit # 0
        /\ run.out = << << "Error: Agent '", run.agent_name, "' not found" >>,
                        << "Available agents:" >> >>
        /\ run.listed = {<< "  - ", n >> :
                           n \in {m \in TableNames \cup ExtraNames : Exists(fs, << m, ".json" >>)}}
        /\ Banner \notin Range(run.out)

C2_Witness ==
    /\ Completed /\ ~ConfigPresent /\ TemplatePresent
    /\ run.agent_name = "ghost"
    /\ Cardinality(run.listed) = Len(AgentOrder) + 1

\* C3: with fewer than two arguments the Runner prints the usage message,
\* exits with code 1 and performs no operation on any file
C3_TooFewArgsTouchesNothing ==
    (run.pc = "done" /\ Len(run.argv) < 3) =>
        /\ run.out = << Usage >>
        /\ run.exit = 1
        /\ run.ops = <<>>
        /\ run.listed = {}

C3_Witness == run.pc = "done" /\ Len(run.argv) = 2 /\ run.exit = 1 /\ fs.dir

\* C4: a Generator run that follows a completed run leaves the file names
\* and contents exactly as the completed run left them
C4_SecondRunChangesNothing ==
    (gen.pc = "done" /\ snap.valid) => fs = snap.fs

C4_Witness ==
    /\ gen.pc = "done" /\ snap.valid /\ gen.runs = 2
    /\ Exists(fs, JsonFile("legacy"))
    /\ fs.runner.mode = "0755"

\* C5: rendering puts the description as it is and each list as one line per
\* entry, in order, each "- " and the entry, lines separated by one newline,
\* the empty list giving the empty string; the scenario of the specification
\* yields "D\n- E1\n- E2\n- G1\n" followed directly by the task
C5_RenderBullets ==
    (/\ Completed /\ run.exit = 0 /\ ConfigPresent /\ TemplatePresent
     /\ fs.files[TemplateName].data = ScenarioTemplate)
    => /\ \A c \in KnownRecords :
            fs.files[ConfigName].data = JsonDump(c) =>
                run.out[3] = << c.description, "\n" >> \o RefBullets(c.expertise)
                             \o << "\n" >> \o RefBullets(c.guidelines)
                             \o << "\n" >> \o run.task
       /\ fs.files[ConfigName].data = JsonDump(Scenario) =>
            run.out[3] = << "D", "\n", "- ", "E1", "\n", "- ", "E2", "\n",
                            "- ", "G1", "\n" >> \o run.task
       /\ fs.files[ConfigName].data = JsonDump(NoItems) =>
            run.out[3] = << "D", "\n", "\n", "\n" >> \o run.task

C5_Witness ==
    /\ Completed /\ run.exit = 0 /\ ConfigPresent
    /\ fs.files[TemplateName].data = ScenarioTemplate
    /\ fs.files[ConfigName].data = JsonDump(Scenario)
    /\ run.out[3] = << "D", "\n", "- ", "E1", "\n", "- ", "E2", "\n", "- ", "G1", "\n", "hello" >>

\* C6: an invocation that follows a successful invocation with the same
\* arguments, no file having been written by the Generator since the first
\* one began, succeeds with the same output
C6_SameInputsSameOutput ==
    (/\ run.pc = "done" /\ ~run.touched
     /\ last.valid /\ last.clean /\ last.argv = run.argv)
    => run.exit = 0 /\ run.out = last.out

C6_Witness ==
    /\ run.pc = "done" /\ ~run.touched /\ run.exit = 0
    /\ last.valid /\ last.clean /\ last.argv = run.argv
    /\ Len(run.argv) = 4

\* C7: when the configuration file of the named agent is present but is not
\* well-formed or lacks one of the three fields, the invocation ends with a
\* non-zero exit code, prints nothing, and repeats no file operation
C7_MalformedIsFatal ==
    (/\ Completed /\ ConfigPresent
     /\ fs.files[ConfigName].data \in BadConfigTexts)
    => /\ run.exit # 0
       /\ run.out = <<>>
       /\ run.listed = {}
       /\ \A i, j \in DOMAIN run.ops : i # j => run.ops[i] # run.ops[j]

C7_Witness ==
    /\ Completed /\ ConfigPresent /\ TemplatePresent
    /\ fs.files[ConfigName].data = Without(Scenario, "guidelines")
    /\ fs.files[TemplateName].data = prompt_template
    /\ run.err = "KeyError"

\* C8 as stated: from an empty directory, a Runner invocation for an agent
\* of the table, interleaved with Generator runs, either reports that the
\* agent is not found or prints the complete rendered prompt
C8_AsStated ==
    (pristine /\ run.pc = "done" /\ Len(run.argv) >= 3 /\ run.agent_name \in TableNames)
    => \/ /\ ~run.found
          /\ run.exit = 1
          /\ Len(run.out) = 2
          /\ run.out[1] = << "Error: Agent '", run.agent_name, "' not found" >>
       \/ /\ run.exit = 0
          /\ run.out = Printed(RefRender(prompt_template, agents[run.agent_name]) \o run.task)

\* C9: in a run started from the empty directory the template exists only if
\* every agent file of the table exists, run_agent.py exists only if the
\* template exists, nothing exists outside an existing directory, and during
\* the first run run_agent.py is executable only once it is fully written
C9_WriteOrder ==
    pristine =>
        /\ TemplatePresent => \A n \in TableNames : Exists(fs, JsonFile(n))
        /\ fs.runner.ex => TemplatePresent
        /\ (\E n \in DirNames : fs.files[n].ex) => fs.dir
        /\ (gen.runs <= 1 /\ fs.runner.mode = "0755") => fs.runner.data = runner_script

C9_Witness ==
    /\ pristine /\ gen.pc = "crashed" /\ gen.runs = 1
    /\ TemplatePresent /\ fs.files[TemplateName].data = <<>>
    /\ ~fs.runner.ex

\* C10: after a completed Generator run, an invocation with a name of the
\* table and any task exits 0 and prints the prompt of that agent; the
\* written template has exactly the three replacement fields
C10_GeneratedAgentsLoadable ==
    (Completed /\ gen.pc = "done" /\ run.agent_name \in TableNames)
    => /\ run.exit = 0
       /\ run.out = Printed(RefRender(prompt_template, agents[run.agent_name]) \o run.task)
       /\ TemplateOK(fs.files[TemplateName].data)
       /\ LET t == fs.files[TemplateName].data
          IN  {t[i + 1] : i \in {j \in DOMAIN t : t[j] = "{"}} = FieldNames

C10_Witness ==
    /\ Completed /\ gen.pc = "done" /\ run.exit = 0
    /\ run.agent_name = "test-engineer"
    /\ Exists(fs, JsonFile("legacy"))
    /\ fs.files[JsonFile("legacy")].data = <<>>

====
